---- MODULE Spec2Model ----
(***************************************************************************)
(* A model of ga4-cli: GA4Service and its query operations, the GA4TUI     *)
(* views and the headless command line.  JavaScript strings are sequences  *)
(* of one-character strings, JavaScript numbers are exact decimals held as *)
(* integers in hundredths (NaN is a distinguished value), and the remote   *)
(* report calls are opaque collaborators whose responses are chosen from   *)
(* finite sets.                                                            *)
(***************************************************************************)
EXTENDS Integers, Sequences, FiniteSets, TLC

VARIABLES
    propertyId,     \* this.propertyId: Null or a property id
    op,             \* the GA4Service operation being called, "none" between calls
    pc,             \* position of the current call
    pathInput,      \* the pathInput argument
    pathVariants,   \* const pathVariants
    basePath,       \* const basePath
    queries,        \* the dimension filters of the runReport calls issued by this call
    res,            \* let res: the response the report is built from
    res1,           \* history: the response to the first runReport call
    res2,           \* history: the response to the second runReport call
    report,         \* the value getPathReport resolves to
    error,          \* the message of the error the call rejects with
    errorLog,       \* errors.log: the contexts of the entries appended, oldest first
    \* GA4TUI
    activeViewId,   \* this.activeViewId
    screen,         \* the view on display
    content,        \* what the boxes of the view show, and the view that wrote it
    pending,        \* service calls in flight, in the order they were started
    timers,         \* view ids whose setInterval timer is running
    realtimeInterval, \* this.realtimeInterval: the view id of the timer it holds, or Null
    countdown,      \* let countdown of the view on display
    lastSummary,    \* let lastSummary of the view on display
    ticksSince,     \* history: timer ticks of the view since a refresh last succeeded
    autoSince,      \* history: refreshes the timer started since a refresh last succeeded
    \* the command line
    argv,           \* process.argv.slice(2)
    configFile,     \* ~/.ga4-cli/config.json
    credsFile,      \* the file named by ga4 init
    cliPc,          \* position of main()
    exitCode,       \* the exit code of the process, Null while it runs
    stdio           \* what the run printed, oldest first

serviceVars == <<propertyId, op, pc, pathInput, pathVariants, basePath, queries, res, res1,
                 res2, report, error>>
tuiVars == <<activeViewId, screen, content, pending, timers, realtimeInterval, countdown,
             lastSummary, ticksSince, autoSince>>
cliVars == <<argv, configFile, credsFile, cliPc, exitCode, stdio>>
\* The state outside the service.
outerVars == <<errorLog, tuiVars, cliVars>>

vars == <<serviceVars, outerVars>>

----------------------------------------------------------------------------
(* Bounds of the model. *)

\* Longest input path enumerated for getPathVariants.
MaxPathLen == 3
\* Most rows in one runReport response.
MaxRows == 2

----------------------------------------------------------------------------
(* JavaScript values. *)

\* undefined / null, kept a sequence so that it compares with strings.
Undefined == <<"undefined-value">>
Null == <<"null-value">>
NoResponse == [absent |-> TRUE]
NoReport == [absent |-> TRUE]
EmptyStr == <<>>

\* Hundredths per unit of the exact decimal arithmetic (TLC's integers are 32 bits wide).
Scale == 10 * 10
\* Number.NaN.
NaN == 0 - 1

DigitChars == <<"0", "1", "2", "3", "4", "5", "6", "7", "8", "9">>
Digits == {DigitChars[i] : i \in 1..10}
DigitVal(c) == (CHOOSE i \in 1..10 : DigitChars[i] = c) - 1
WhiteSpace == {" "}

\* a || b on strings: undefined and '' are falsy.
Falsy(v) == v = Undefined \/ v = Null \/ v = EmptyStr
OrElse(v, d) == IF Falsy(v) THEN d ELSE v

Tail2(s, n) == SubSeq(s, n + 1, Len(s))

RECURSIVE TrimStart(_)
TrimStart(s) ==
    IF s # <<>> /\ Head(s) \in WhiteSpace THEN TrimStart(Tail(s)) ELSE s

RECURSIVE TrimEnd(_)
TrimEnd(s) ==
    IF s # <<>> /\ s[Len(s)] \in WhiteSpace THEN TrimEnd(SubSeq(s, 1, Len(s) - 1)) ELSE s

\* String.prototype.trim
Trim(s) == TrimEnd(TrimStart(s))

StartsWithSlash(s) == s # <<>> /\ Head(s) = "/"
EndsWithSlash(s) == s # <<>> /\ s[Len(s)] = "/"
\* s.slice(0, -1)
DropLast(s) == SubSeq(s, 1, Len(s) - 1)

\* [...new Set(xs)]: first occurrences, in order.
RECURSIVE Dedup(_)
Dedup(xs) ==
    IF xs = <<>> THEN <<>>
    ELSE LET init == Dedup(SubSeq(xs, 1, Len(xs) - 1))
             last == xs[Len(xs)]
         IN IF \E i \in 1..Len(init) : init[i] = last THEN init ELSE Append(init, last)

\* The number of leading decimal digits of s.
RECURSIVE DigitPrefixLen(_)
DigitPrefixLen(s) ==
    IF s # <<>> /\ Head(s) \in Digits THEN 1 + DigitPrefixLen(Tail(s)) ELSE 0

\* The value of a string of decimal digits.
RECURSIVE DigitsValue(_)
DigitsValue(s) ==
    IF s = <<>> THEN 0 ELSE 10 * DigitsValue(DropLast(s)) + DigitVal(s[Len(s)])

\* The first two fraction digits as hundredths (further digits are cut).
FracValue(s) ==
    LET d(i) == IF i <= Len(s) THEN DigitVal(s[i]) ELSE 0
    IN 10 * d(1) + d(2)

\* parseInt(s, 10) of a string without sign, in hundredths.
ParseInt(v) ==
    LET s == TrimStart(v)
        n == DigitPrefixLen(s)
    IN IF n = 0 THEN NaN ELSE Scale * DigitsValue(SubSeq(s, 1, n))

\* parseFloat(s) of a string without sign or exponent, in hundredths.
ParseFloat(v) ==
    LET s == TrimStart(v)
        n == DigitPrefixLen(s)
        rest == Tail2(s, n)
        hasDot == rest # <<>> /\ Head(rest) = "."
        f == IF hasDot THEN DigitPrefixLen(Tail(rest)) ELSE 0
    IN IF n = 0 /\ f = 0 THEN NaN
       ELSE Scale * DigitsValue(SubSeq(s, 1, n))
            + (IF f = 0 THEN 0 ELSE FracValue(SubSeq(rest, 2, f + 1)))

\* The first four fraction digits as ten-thousandths (further digits are cut).
FracValueFine(s) ==
    LET d(i) == IF i <= Len(s) THEN DigitVal(s[i]) ELSE 0
    IN 1000 * d(1) + 100 * d(2) + 10 * d(3) + d(4)

\* parseFloat(s) of a string without sign or exponent, in ten-thousandths: the
\* precision the rate formatter's rounding needs.
ParseFloatFine(v) ==
    LET s == TrimStart(v)
        n == DigitPrefixLen(s)
        rest == Tail2(s, n)
        hasDot == rest # <<>> /\ Head(rest) = "."
        f == IF hasDot THEN DigitPrefixLen(Tail(rest)) ELSE 0
    IN IF n = 0 /\ f = 0 THEN NaN
       ELSE Scale * Scale * DigitsValue(SubSeq(s, 1, n))
            + (IF f = 0 THEN 0 ELSE FracValueFine(SubSeq(rest, 2, f + 1)))

IsNaN(n) == n = NaN
\* a + b and a * b of two numbers in hundredths; the product is in ten-thousandths.
NumAdd(a, b) == IF IsNaN(a) \/ IsNaN(b) THEN NaN ELSE a + b
NumMul(a, b) == IF IsNaN(a) \/ IsNaN(b) THEN NaN ELSE a * b

\* The decimal digits of a natural number.
RECURSIVE NatToStr(_)
NatToStr(n) ==
    IF n < 10 THEN <<DigitChars[n + 1]>>
    ELSE Append(NatToStr(n \div 10), DigitChars[(n % 10) + 1])

\* The fraction digits of f hundredths (0 < f < 100), a trailing zero dropped.
FracToStr(f) ==
    LET d1 == f \div 10
        d2 == f % 10
    IN IF d2 # 0 THEN <<DigitChars[d1 + 1], DigitChars[d2 + 1]>>
       ELSE <<DigitChars[d1 + 1]>>

\* String(n) of a number in hundredths.
NumToString(n) ==
    IF IsNaN(n) THEN <<"N", "a", "N">>
    ELSE IF n % Scale = 0 THEN NatToStr(n \div Scale)
    ELSE NatToStr(n \div Scale) \o <<".">> \o FracToStr(n % Scale)

----------------------------------------------------------------------------
(* GA4Service.getPathVariants *)

\* const normalized = p.startsWith('/') ? p : `/${p}`
Normalize(p) == IF StartsWithSlash(p) THEN p ELSE <<"/">> \o p

\* getPathVariants without the special case for the root path.
getPathVariantsNoRoot(path) ==
    LET p == Trim(OrElse(path, EmptyStr))
        normalized == Normalize(p)
        withTrailing == IF EndsWithSlash(normalized) THEN normalized
                        ELSE normalized \o <<"/">>
        withoutTrailing == IF EndsWithSlash(normalized) THEN DropLast(normalized)
                           ELSE normalized
    IN IF Falsy(p) THEN <<>>
       ELSE Dedup(<<withTrailing, withoutTrailing>>)

\* getPathVariants without the trim.
getPathVariantsNoTrim(path) ==
    LET p == OrElse(path, EmptyStr)
        normalized == Normalize(p)
        withTrailing == IF EndsWithSlash(normalized) THEN normalized
                        ELSE normalized \o <<"/">>
        withoutTrailing == IF EndsWithSlash(normalized) THEN DropLast(normalized)
                           ELSE normalized
    IN IF Falsy(p) THEN <<>>
       ELSE IF normalized = <<"/">> THEN << <<"/">> >>
       ELSE Dedup(<<withTrailing, withoutTrailing>>)

getPathVariants(path) ==
    LET p == Trim(OrElse(path, EmptyStr))
        normalized == Normalize(p)
        withTrailing == IF EndsWithSlash(normalized) THEN normalized
                        ELSE normalized \o <<"/">>
        withoutTrailing == IF EndsWithSlash(normalized) THEN DropLast(normalized)
                           ELSE normalized
    IN IF Falsy(p) THEN <<>>
       ELSE IF normalized = <<"/">> THEN << <<"/">> >>
       ELSE Dedup(<<withTrailing, withoutTrailing>>)

----------------------------------------------------------------------------
(* Responses of the remote runReport call. *)

\* Metric indices of buildRequest's metrics array.
MetricNames == <<"sessions", "totalUsers", "newUsers", "screenPageViews", "eventCount",
                 "averageSessionDuration", "bounceRate", "engagementRate">>
MetricIdx == 0..(Len(MetricNames) - 1)

\* xs?.[i]?.value for a zero-based index.
ValueAt(xs, i) == IF i + 1 <= Len(xs) THEN xs[i + 1] ELSE Undefined

S0 == <<"0">>
S1 == <<"1">>
S5 == <<"5">>
S10 == <<"1", "0">>
S30 == <<"3", "0">>
S70 == <<"7", "0">>
S100 == <<"1", "0", "0">>
SBad == <<"x">>
SRateLo == <<"0", ".", "2">>
SRateHi == <<"0", ".", "5">>
SRatePct == <<"4", "2", ".", "3", "7">>
SRateFine == <<"0", ".", "1", "0", "5", "2">>
SDur == <<"1", "2", "5", ".", "4", "6">>
SDurInt == <<"6", "0">>
SPathA == <<"/", "a">>
SPathAQ == <<"/", "a", "?", "q">>

\* Rows with every field well formed: sessions and pageviews vary independently, and
\* so do the rates with respect to each of them.
RegularMetricValues ==
    {<<s, s, S1, p, p, (IF s = p THEN SDur ELSE SDurInt),
       (IF s = S10 THEN SRateLo ELSE SRateHi), (IF p = S30 THEN SRateHi ELSE SRateLo)>> :
        s \in {S10, S30}, p \in {S30, S70}}

\* Rows with zero weights, missing, empty, malformed or non-canonical fields.
SpecialMetricValues ==
    { <<S0, S0, S0, S0, S0, S0, S0, S0>>,
      <<S0, S0, S0, S5, S5, SDur, SRateHi, SRatePct>>,
      <<Undefined, S5, EmptyStr, S30, Undefined, Undefined, EmptyStr, SRatePct>>,
      <<SBad, S5, S1, S30, S30, SBad, SBad, SRateLo>>,
      <<S0, S0, S0, S5, S5, SBad, SBad, SRatePct>>,
      <<S30 \o <<".", "0">>, <<"0">> \o S5, S1, S30, S30, SDurInt, SRateLo, SRateLo>>,
      <<>> }

Rows ==
    {[dim |-> SPathA, mv |-> m] : m \in RegularMetricValues}
    \cup {[dim |-> (IF Len(m) = 0 THEN Undefined ELSE SPathAQ), mv |-> m] :
              m \in SpecialMetricValues}

\* res.data.totals[0].metricValues; <<>> when the response carries no totals.
TotalsValues ==
    { <<>>,
      <<S0, S0, S0, S0, S0, S0, S0, S0>>,
      <<S100, S70, S30, S100, S100, SDur, <<"0", ".", "4", "1">>, SRatePct>>,
      <<S5, Undefined, EmptyStr, S0, Undefined, SDur, SRateLo, EmptyStr>>,
      <<S5, S5, S1, SBad, S5, SBad, SRateFine, SRatePct>> }

RowSeqs == UNION {[1..n -> Rows] : n \in 0..MaxRows}

Responses == {[rows |-> rs, totals |-> t] : rs \in RowSeqs, t \in TotalsValues}

----------------------------------------------------------------------------
(* GA4Service.getPathReport: the helpers it defines. *)

\* The index of screenPageViews in the metrics array.
PageviewIndex == 3

\* const getTotalViews = (r) => parseInt(r?.data?.totals?.[0]?.metricValues?.[3]?.value || '0', 10)
getTotalViews(r) == ParseInt(OrElse(ValueAt(r.totals, PageviewIndex), S0))

\* const getRows = (r) => r?.data?.rows || []
getRows(r) == r.rows

\* rows.reduce((sum, row) => sum + parseFloat(row.metricValues?.[metricIndex]?.value || '0'), 0)
RECURSIVE SumField(_, _)
SumField(rows, metricIndex) ==
    IF rows = <<>> THEN 0
    ELSE NumAdd(SumField(DropLast(rows), metricIndex),
                ParseFloat(OrElse(ValueAt(rows[Len(rows)].mv, metricIndex), S0)))

\* A sum that reads the column after the one asked for.
sumMetricShifted(rows, metricIndex) == NumToString(SumField(rows, metricIndex + 1))

sumMetric(rows, metricIndex) == NumToString(SumField(rows, metricIndex))

\* sumWx after rows.forEach, in ten-thousandths.
RECURSIVE SumWx(_, _, _)
SumWx(rows, metricIndex, weightIndex) ==
    IF rows = <<>> THEN 0
    ELSE LET row == rows[Len(rows)]
             w == ParseFloat(OrElse(ValueAt(row.mv, weightIndex), S0))
             x == ParseFloat(OrElse(ValueAt(row.mv, metricIndex), S0))
         IN NumAdd(SumWx(DropLast(rows), metricIndex, weightIndex), NumMul(x, w))

\* Math.round(a / b) for b > 0: the nearest integer, halves up.
RoundDiv(a, b) == (2 * a + b) \div (2 * b)

\* String(Math.round((sumWx / sumW) * 100) / 100), sumWx in ten-thousandths, sumW in
\* hundredths.
RoundedQuotient(sumWx, sumW) ==
    IF IsNaN(sumWx) THEN NumToString(NaN)
    ELSE NumToString((Scale \div 100) * RoundDiv(sumWx, sumW))

\* A weighted average without the single-row shortcut.
weightedAvgNoShortcut(rows, metricIndex, weightIndex) ==
    IF Len(rows) = 0 THEN S0
    ELSE LET sumWx == SumWx(rows, metricIndex, weightIndex)
             sumW == SumField(rows, weightIndex)
         IN IF ~IsNaN(sumW) /\ sumW > 0 THEN RoundedQuotient(sumWx, sumW) ELSE S0

\* A weighted average that divides whatever the total weight is: with a zero total
\* weight the quotient 0 / 0 is NaN.
weightedAvgUnguarded(rows, metricIndex, weightIndex) ==
    IF Len(rows) = 0 THEN S0
    ELSE IF Len(rows) = 1 THEN OrElse(ValueAt(rows[1].mv, metricIndex), S0)
    ELSE LET sumWx == SumWx(rows, metricIndex, weightIndex)
             sumW == SumField(rows, weightIndex)
         IN IF ~IsNaN(sumW) /\ sumW > 0 THEN RoundedQuotient(sumWx, sumW)
            ELSE NumToString(NaN)

weightedAvg(rows, metricIndex, weightIndex) ==
    IF Len(rows) = 0 THEN S0
    ELSE IF Len(rows) = 1 THEN OrElse(ValueAt(rows[1].mv, metricIndex), S0)
    ELSE LET sumWx == SumWx(rows, metricIndex, weightIndex)
             sumW == SumField(rows, weightIndex)
         IN IF ~IsNaN(sumW) /\ sumW > 0 THEN RoundedQuotient(sumWx, sumW) ELSE S0

\* const formatRate of getTopPagesReport: the values it does not rescale are rounded
\* to one decimal.
topPagesFormatRate(v) ==
    LET n == ParseFloatFine(v)
    IN IF IsNaN(n) THEN v
       ELSE IF n > 0 /\ n < Scale * Scale
       THEN NumToString((Scale \div 10) * RoundDiv(n * 1000, Scale * Scale))
       ELSE NumToString((Scale \div 10) * RoundDiv(n * 10, Scale * Scale))

\* Math.round(n * 1000) / 10 for 0 < n < 1, v itself otherwise.
formatRate(v) ==
    LET n == ParseFloatFine(v)
    IN IF ~IsNaN(n) /\ n > 0 /\ n < Scale * Scale
       THEN NumToString((Scale \div 10) * RoundDiv(n * 1000, Scale * Scale))
       ELSE v

\* A duration always printed with one decimal, as Number.prototype.toFixed(1) does.
formatDurationFixed(v) ==
    LET n == ParseFloat(v)
        t == RoundDiv(n * 10, Scale)
    IN IF IsNaN(n) THEN v ELSE NatToStr(t \div 10) \o <<".">> \o NatToStr(t % 10)

formatDuration(v) ==
    LET n == ParseFloat(v)
    IN IF IsNaN(n) THEN v ELSE NumToString((Scale \div 10) * RoundDiv(n * 10, Scale))

\* The screenPageViews column taken as the weight.
WeightByPageviews == 3

\* The weight column of the call weightedAvg(i, 0).
WeightIndex == 0
SummableIdx == {0, 1, 2, 3, 4}

\* A metric aggregated from the rows whatever the totals hold.
rawMetricRowsOnly(r, i) ==
    LET rows == getRows(r)
    IN IF Len(rows) = 0 THEN S0
       ELSE IF i \in SummableIdx THEN sumMetric(rows, i)
       ELSE weightedAvg(rows, i, WeightIndex)

\* A metric read from the totals alone, "0" when they do not hold it.
rawMetricTotalsOnly(r, i) ==
    IF ~Falsy(ValueAt(r.totals, i)) THEN ValueAt(r.totals, i) ELSE S0

\* The value of v before formatting in const metric = (i) => ...
rawMetric(r, i) ==
    LET rows == getRows(r)
        m == r.totals
    IN IF ~Falsy(ValueAt(m, i)) THEN ValueAt(m, i)
       ELSE IF Len(rows) = 0 THEN S0
       ELSE IF i \in SummableIdx THEN sumMetric(rows, i)
       ELSE weightedAvg(rows, i, WeightIndex)

formatMetric(i, v) ==
    IF i = 5 THEN formatDuration(v)
    ELSE IF i = 6 \/ i = 7 THEN formatRate(v)
    ELSE v

metric(r, i) == formatMetric(i, rawMetric(r, i))

SNotSet == <<"(", "n", "o", "t", " ", "s", "e", "t", ")">>

\* const entry = `[${timestamp}] [${context}] ${message}`
LogEntry(context, message) == [context |-> context, message |-> message]

\* A logError that rewrites the file with the new entry.
logErrorTruncating(log, entry) == <<entry>>

\* logError: fs.appendFileSync(ERROR_LOG_FILE, entry, 'utf-8')
logError(log, entry) == Append(log, entry)

\* rows.map((r) => ({ pagePath: ..., sessions: ..., ... }))
byPathOf(rows) ==
    [k \in 1..Len(rows) |->
        [pagePath |-> OrElse(rows[k].dim, SNotSet),
         metrics |-> [j \in 1..Len(MetricNames) |-> OrElse(ValueAt(rows[k].mv, j - 1), S0)]]]

\* The object getPathReport returns, built from the response held in res.
buildReport(path, variants, r) ==
    [path |-> path,
     pathVariants |-> variants,
     metrics |-> [j \in 1..Len(MetricNames) |-> metric(r, j - 1)],
     byPath |-> byPathOf(getRows(r))]

----------------------------------------------------------------------------
(* The state machine of one GA4Service and its getPathReport calls. *)

P1 == <<"7">>
P2 == <<"8">>
\* The ids given to setPropertyId.
PropertyIds == {P1}
\* config.propertyId as the constructor reads it.
ConfigPropertyIds == {Null, P1}

\* Arguments of getPathReport.
PathInputs ==
    { Undefined, EmptyStr, <<" ">>, <<"/">>, <<" ", "/", "A", "/", " ">> }
DateRangeArgs == { [startDate |-> "2026-02-01", endDate |-> "2026-02-25"] }

ErrNoProperty == "No property selected"
ErrEmptyPath == "Path cannot be empty"
ErrUpstream == "runReport rejected"
NoError == "none"

\* const buildRequest = (dimensionFilter) => ({ ... })
buildRequest(property, dates, dimensionFilter) ==
    [property |-> property,
     dateRanges |-> <<dates>>,
     dimensions |-> <<"pagePath">>,
     metrics |-> MetricNames,
     dimensionFilter |-> dimensionFilter]

inListFilter(values) ==
    [fieldName |-> "pagePath", filter |-> "inListFilter", values |-> values,
     caseSensitive |-> FALSE]

beginsWithFilter(value) ==
    [fieldName |-> "pagePath", filter |-> "stringFilter", matchType |-> "BEGINS_WITH",
     value |-> value, caseSensitive |-> FALSE]

\* A base path that keeps the trailing slash.
basePathKeepSlash(path) == Normalize(Trim(path))

\* const basePath = normalized.endsWith('/') ? normalized.slice(0, -1) : normalized
basePathOf(path) ==
    LET normalized == Normalize(Trim(path))
    IN IF EndsWithSlash(normalized) THEN DropLast(normalized) ELSE normalized

\* A fallback test that looks at the rows alone.
needsFallbackRowsOnly(r) == Len(getRows(r)) = 0

\* if (getTotalViews(res) === 0 && getRows(res).length === 0)
needsFallback(r) == getTotalViews(r) = 0 /\ Len(getRows(r)) = 0

Idle == pc = "idle"
Settled == pc \in {"resolved", "rejected", "returned", "threw"}

\* No terminal interface and no command line: the service is driven directly.
TuiOff ==
    /\ activeViewId = 0
    /\ screen = "none"
    /\ content = [owner |-> 0, body |-> "blank"]
    /\ pending = <<>>
    /\ timers = {}
    /\ realtimeInterval = 0
    /\ countdown = 0
    /\ lastSummary = "none"
    /\ ticksSince = 0
    /\ autoSince = 0

CliOff ==
    /\ argv = <<>>
    /\ configFile = "none"
    /\ credsFile = "none"
    /\ cliPc = "none"
    /\ exitCode = Null
    /\ stdio = <<>>

\* No call in progress.
NoCall ==
    /\ op = "none"
    /\ pc = "idle"
    /\ pathInput = Undefined
    /\ pathVariants = <<>>
    /\ basePath = Undefined
    /\ queries = <<>>
    /\ res = NoResponse
    /\ res1 = NoResponse
    /\ res2 = NoResponse
    /\ report = NoReport
    /\ error = NoError

Init ==
    /\ propertyId \in ConfigPropertyIds
    /\ NoCall
    /\ errorLog = <<>>
    /\ TuiOff
    /\ CliOff

\* A requirePropertyId that accepts a missing property id.
requirePropertyIdNever == FALSE

\* requirePropertyId(): if (!this.propertyId) throw new Error('No property selected...')
requirePropertyIdThrows == Falsy(propertyId)

\* GA4Service.setPropertyId(p): this.propertyId = String(propertyId)
setPropertyIdTo(p) ==
    /\ propertyId' = p
    /\ UNCHANGED <<op, pc, pathInput, pathVariants, basePath, queries, res, res1, res2,
                   report, error, outerVars>>

\* getPathReport up to its first await: requirePropertyId, getPathVariants, the
\* empty-path check, basePath and the first runReport call.
getPathReportStarts(path, dates) ==
    /\ pathInput' = path
    /\ op' = "getPathReport"
    /\ UNCHANGED <<propertyId, res, res1, res2, report>>
    /\ IF requirePropertyIdThrows
       THEN /\ pc' = "rejected"
            /\ error' = ErrNoProperty
            /\ pathVariants' = <<>>
            /\ basePath' = Undefined
            /\ queries' = <<>>
       ELSE IF Len(getPathVariants(path)) = 0
       THEN /\ pc' = "rejected"
            /\ error' = ErrEmptyPath
            /\ pathVariants' = getPathVariants(path)
            /\ basePath' = Undefined
            /\ queries' = <<>>
       ELSE /\ pc' = "runReport1"
            /\ error' = NoError
            /\ pathVariants' = getPathVariants(path)
            /\ basePath' = basePathOf(path)
            /\ queries' = <<buildRequest(propertyId, dates,
                                         inListFilter(getPathVariants(path)))>>

\* A call of getPathReport made on the service directly.
getPathReportCalled(path, dates) ==
    getPathReportStarts(path, dates) /\ UNCHANGED outerVars

\* The first runReport resolves: either the fallback query is issued or the report
\* is built from this response.
firstResponse(r) ==
    /\ res' = r
    /\ res1' = r
    /\ IF needsFallback(r)
       THEN /\ pc' = "runReport2"
            /\ queries' = Append(queries,
                    buildRequest(propertyId, queries[1].dateRanges[1],
                                 beginsWithFilter(basePath)))
            /\ UNCHANGED report
       ELSE /\ pc' = "resolved"
            /\ report' = buildReport(pathInput, pathVariants, r)
            /\ UNCHANGED queries
    /\ UNCHANGED <<propertyId, op, pathInput, pathVariants, basePath, res2, error, outerVars>>

setPropertyId == Idle /\ \E p \in PropertyIds : setPropertyIdTo(p)

CallGetPathReport ==
    Idle /\ \E path \in PathInputs, dates \in DateRangeArgs : getPathReportCalled(path, dates)

RunReport1Resolves == pc = "runReport1" /\ \E r \in Responses : firstResponse(r)

\* A rejected first runReport that is swallowed and followed by the fallback query.
RunReport1RejectsThenFallback ==
    /\ pc = "runReport1"
    /\ pc' = "runReport2"
    /\ queries' = Append(queries,
            buildRequest(queries[1].property, queries[1].dateRanges[1],
                         beginsWithFilter(basePath)))
    /\ UNCHANGED <<propertyId, op, pathInput, pathVariants, basePath, res, res1, res2,
                   report, error, outerVars>>

\* The first runReport rejects: the error propagates out of getPathReport.
RunReport1Rejects ==
    /\ pc = "runReport1"
    /\ pc' = "rejected"
    /\ error' = ErrUpstream
    /\ UNCHANGED <<propertyId, op, pathInput, pathVariants, basePath, queries, res, res1,
                   res2, report, outerVars>>

\* A second response merged into the first instead of replacing it.
mergeRes(prev, r) ==
    [rows |-> prev.rows \o r.rows,
     totals |-> IF prev.totals # <<>> THEN prev.totals ELSE r.totals]

\* res = await this.client.properties.runReport(...): the assignment replaces the
\* first response by the second.
reassignRes(prev, r) == r

\* The second runReport resolves: res is overwritten and the report built from it.
secondResponse(r) ==
    /\ res' = reassignRes(res, r)
    /\ res2' = r
    /\ pc' = "resolved"
    /\ report' = buildReport(pathInput, pathVariants, reassignRes(res, r))
    /\ UNCHANGED <<propertyId, op, pathInput, pathVariants, basePath, queries, res1, error,
                   outerVars>>

RunReport2Resolves == pc = "runReport2" /\ \E r \in Responses : secondResponse(r)

\* A rejected fallback query that also drops the selected property.
RunReport2RejectsResetting ==
    /\ pc = "runReport2"
    /\ pc' = "rejected"
    /\ error' = ErrUpstream
    /\ propertyId' = Null
    /\ UNCHANGED <<op, pathInput, pathVariants, basePath, queries, res, res1, res2,
                   report, outerVars>>

RunReport2Rejects ==
    /\ pc = "runReport2"
    /\ pc' = "rejected"
    /\ error' = ErrUpstream
    /\ UNCHANGED <<propertyId, op, pathInput, pathVariants, basePath, queries, res, res1,
                   res2, report, outerVars>>

----------------------------------------------------------------------------
(* The operations of GA4Service that issue one query. *)

SimpleOps ==
    {"getRealtimeSummary", "getRealtimeTopPages", "getReportSummary", "getTopPagesReport"}
Limits == {20}

RealtimeSummaryRequest(property) ==
    [method |-> "runRealtimeReport", property |-> property,
     metrics |-> <<"activeUsers", "screenPageViews", "eventCount">>]

RealtimeTopPagesRequest(property, limit) ==
    [method |-> "runRealtimeReport", property |-> property,
     dimensions |-> <<"unifiedScreenName">>, metrics |-> <<"screenPageViews">>,
     orderBys |-> <<"screenPageViews desc">>, limit |-> NatToStr(limit)]

ReportSummaryRequest(property, dates) ==
    [method |-> "runReport", property |-> property, dateRanges |-> <<dates>>,
     metrics |-> <<"sessions", "totalUsers", "newUsers", "screenPageViews",
                   "averageSessionDuration", "bounceRate">>]

TopPagesRequest(property, dates, limit) ==
    [method |-> "runReport", property |-> property, dateRanges |-> <<dates>>,
     dimensions |-> <<"pagePath", "pageTitle">>,
     metrics |-> <<"screenPageViews", "sessions", "bounceRate", "averageSessionDuration">>,
     orderBys |-> <<"screenPageViews desc">>, limit |-> NatToStr(limit)]

\* res.data?.rows?.[0]?.metricValues
FirstRowValues(r) == IF Len(getRows(r)) = 0 THEN <<>> ELSE getRows(r)[1].mv

RealtimeSummaryOf(r) ==
    LET m == FirstRowValues(r)
    IN [activeUsers |-> OrElse(ValueAt(m, 0), S0),
        screenPageViews |-> OrElse(ValueAt(m, 1), S0),
        eventCount |-> OrElse(ValueAt(m, 2), S0)]

RealtimeTopPagesOf(r) ==
    [k \in 1..Len(getRows(r)) |->
        [page |-> OrElse(getRows(r)[k].dim, SNotSet),
         views |-> OrElse(ValueAt(getRows(r)[k].mv, 0), S0)]]

ReportSummaryOf(r) ==
    LET m == FirstRowValues(r)
    IN [sessions |-> OrElse(ValueAt(m, 0), S0),
        totalUsers |-> OrElse(ValueAt(m, 1), S0),
        newUsers |-> OrElse(ValueAt(m, 2), S0),
        pageviews |-> OrElse(ValueAt(m, 3), S0),
        averageSessionDuration |-> OrElse(ValueAt(m, 4), S0),
        bounceRate |-> OrElse(ValueAt(m, 5), S0)]

\* The rows carry one dimension value: the page title is not set.
TopPagesOf(r) ==
    [k \in 1..Len(getRows(r)) |->
        [path |-> OrElse(getRows(r)[k].dim, SNotSet),
         pageTitle |-> SNotSet,
         views |-> OrElse(ValueAt(getRows(r)[k].mv, 0), S0),
         sessions |-> OrElse(ValueAt(getRows(r)[k].mv, 1), S0),
         bounceRate |-> topPagesFormatRate(OrElse(ValueAt(getRows(r)[k].mv, 2), S0)),
         engagementTime |-> formatDuration(OrElse(ValueAt(getRows(r)[k].mv, 3), S0))]]

\* The request an operation issues.
RequestOf(o, property, dates, limit) ==
    CASE o = "getRealtimeSummary" -> RealtimeSummaryRequest(property)
      [] o = "getRealtimeTopPages" -> RealtimeTopPagesRequest(property, limit)
      [] o = "getReportSummary" -> ReportSummaryRequest(property, dates)
      [] o = "getTopPagesReport" -> TopPagesRequest(property, dates, limit)

\* The value an operation resolves to.
ResultOf(o, r) ==
    CASE o = "getRealtimeSummary" -> RealtimeSummaryOf(r)
      [] o = "getRealtimeTopPages" -> RealtimeTopPagesOf(r)
      [] o = "getReportSummary" -> ReportSummaryOf(r)
      [] o = "getTopPagesReport" -> TopPagesOf(r)

\* An operation up to its await: requirePropertyId and the remote call.
operationStarts(o, dates, limit) ==
    /\ op' = o
    /\ pathInput' = Undefined
    /\ pathVariants' = <<>>
    /\ basePath' = Undefined
    /\ UNCHANGED <<propertyId, res, res1, res2, report>>
    /\ IF requirePropertyIdThrows
       THEN /\ pc' = "threw"
            /\ error' = ErrNoProperty
            /\ queries' = <<>>
       ELSE /\ pc' = "runQuery"
            /\ error' = NoError
            /\ queries' = <<RequestOf(o, propertyId, dates, limit)>>

\* A call of the operation made on the service directly.
operationCalled(o, dates, limit) ==
    operationStarts(o, dates, limit) /\ UNCHANGED outerVars

getRealtimeSummary ==
    Idle /\ \E dates \in DateRangeArgs, limit \in Limits :
                operationCalled("getRealtimeSummary", dates, limit)
getRealtimeTopPages ==
    Idle /\ \E dates \in DateRangeArgs, limit \in Limits :
                operationCalled("getRealtimeTopPages", dates, limit)
getReportSummary ==
    Idle /\ \E dates \in DateRangeArgs, limit \in Limits :
                operationCalled("getReportSummary", dates, limit)
getTopPagesReport ==
    Idle /\ \E dates \in DateRangeArgs, limit \in Limits :
                operationCalled("getTopPagesReport", dates, limit)

\* The remote call resolves and the operation returns its result.
queryResponse(r) ==
    /\ res' = r
    /\ report' = ResultOf(op, r)
    /\ pc' = "returned"
    /\ UNCHANGED <<propertyId, op, pathInput, pathVariants, basePath, queries, res1, res2,
                   error, outerVars>>

QueryResolves == pc = "runQuery" /\ \E r \in Responses : queryResponse(r)

\* The remote call rejects: the error propagates out of the operation.
QueryRejects ==
    /\ pc = "runQuery"
    /\ pc' = "threw"
    /\ error' = ErrUpstream
    /\ UNCHANGED <<propertyId, op, pathInput, pathVariants, basePath, queries, res, res1,
                   res2, report, outerVars>>

\* The caller has consumed the outcome; the call's locals are gone and the service
\* is ready for the next call.
Return ==
    /\ Settled
    /\ pc' = "idle"
    /\ pathInput' = Undefined
    /\ pathVariants' = <<>>
    /\ basePath' = Undefined
    /\ queries' = <<>>
    /\ res' = NoResponse
    /\ res1' = NoResponse
    /\ res2' = NoResponse
    /\ report' = NoReport
    /\ error' = NoError
    /\ op' = "none"
    /\ UNCHANGED <<propertyId, outerVars>>

Next ==
    \/ setPropertyId
    \/ getRealtimeSummary
    \/ getRealtimeTopPages
    \/ getReportSummary
    \/ getTopPagesReport
    \/ QueryResolves
    \/ QueryRejects
    \/ CallGetPathReport
    \/ RunReport1Resolves
    \/ RunReport1Rejects
    \/ RunReport2Resolves
    \/ RunReport2Rejects
    \/ Return

Spec == Init /\ [][Next]_vars

----------------------------------------------------------------------------
(* getPathVariants as a function of its argument: every string over PathChars up to  *)
(* MaxPathLen characters, and undefined.                                              *)

PathChars == {" ", "/", "a", "B"}
PathStrings == UNION {[1..n -> PathChars] : n \in 0..MaxPathLen}

InitVariants ==
    /\ pc = "getPathVariants"
    /\ pathInput \in PathStrings \cup {Undefined}
    /\ pathVariants = <<>>
    /\ propertyId = Null
    /\ op = "none"
    /\ errorLog = <<>>
    /\ TuiOff
    /\ CliOff
    /\ basePath = Undefined
    /\ queries = <<>>
    /\ res = NoResponse
    /\ res1 = NoResponse
    /\ res2 = NoResponse
    /\ report = NoReport
    /\ error = NoError

ReturnVariants ==
    /\ pc = "getPathVariants"
    /\ pc' = "variants"
    /\ pathVariants' = getPathVariants(pathInput)
    /\ UNCHANGED <<propertyId, op, pathInput, basePath, queries, res, res1, res2, report,
                   error, outerVars>>

NextVariants == ReturnVariants

SpecVariants == InitVariants /\ [][NextVariants]_vars

----------------------------------------------------------------------------
(* GA4TUI: the views, the service calls they start and the realtime timer.  A call *)
(* of the service is opaque here: it is in flight until it resolves with some data  *)
(* or rejects.                                                                      *)

\* Most views opened in one session.
MaxViewId == 4
\* Most service calls in flight at once.
MaxPending == 2
\* Most timer ticks followed after a successful refresh.
MaxTicks == 7
\* Most entries written to errors.log.
MaxLog == 1

\* let countdown = 5
CountdownStart == 5

\* What a resolved call delivers.
Data == {"d1", "d2"}
Outcomes == [ok : {TRUE}, data : Data] \cup {[ok |-> FALSE, data |-> "none"]}

FormScreens == {"pathInput", "pagesCustom", "pathCustom"}
Screens ==
    {"menu", "pagesRange", "pathRange", "pathReport", "topPages", "realtime"}
        \cup FormScreens

\* this.realtimeInterval = null; let lastSummary = null
NoTimer == 0
NoSummary == "none"

\* The content of summaryBox: a text, or a summary with the countdown shown (0: none).
Summary(text, data, secs) == [text |-> text, data |-> data, secs |-> secs]
NoSummaryBox == Summary("none", "none", 0)

Blank == [owner |-> 0, summary |-> NoSummaryBox, body |-> "blank"]

InitTui ==
    /\ propertyId \in ConfigPropertyIds
    /\ NoCall
    /\ errorLog = <<>>
    /\ CliOff
    /\ activeViewId = 0
    /\ screen = "start"
    /\ content = Blank
    /\ pending = <<>>
    /\ timers = {}
    /\ realtimeInterval = NoTimer
    /\ countdown = 0
    /\ lastSummary = NoSummary
    /\ ticksSince = 0
    /\ autoSince = 0

\* clearContent(): stopRealtime(), destroy the children, this.activeViewId += 1;
\* then the view draws its first content.
clearContentThen(newScreen, summary, body) ==
    /\ activeViewId < MaxViewId
    /\ timers' = timers \ {realtimeInterval}
    /\ realtimeInterval' = NoTimer
    /\ activeViewId' = activeViewId + 1
    /\ screen' = newScreen
    /\ content' = [owner |-> activeViewId + 1, summary |-> summary, body |-> body]
    /\ UNCHANGED <<serviceVars, cliVars, errorLog>>

\* A view without service call.
showStatic(newScreen, body) ==
    /\ clearContentThen(newScreen, NoSummaryBox, body)
    /\ UNCHANGED <<pending, countdown, lastSummary, ticksSince, autoSince>>

\* A service call started by view v.  overtaken notes that a call of the same view
\* started after this one has already settled and rendered.
Call(v, kind, trigger) ==
    [viewId |-> v, kind |-> kind, trigger |-> trigger, overtaken |-> FALSE]

showMenu ==
    /\ screen \in {"start", "realtime", "pathInput", "pagesRange"}
    /\ showStatic("menu", "menu")

showTopPagesDateRange ==
    /\ screen \in {"menu", "topPages", "pagesCustom"}
    /\ showStatic("pagesRange", "selector")

showPathInput ==
    /\ screen \in {"menu", "pathRange"}
    /\ showStatic("pathInput", "form")

\* showDateRangeSelector for the path report: a path was submitted, or Esc/B in the
\* path report or in its custom date form.
showPathDateRange ==
    /\ screen \in {"pathInput", "pathReport", "pathCustom"}
    /\ showStatic("pathRange", "selector")

showCustomDateRangeInput ==
    /\ screen \in {"pagesRange", "pathRange"}
    /\ showStatic(IF screen = "pagesRange" THEN "pagesCustom" ELSE "pathCustom", "form")

\* form.on('submit') with an empty path or invalid dates: the error text is set.
SubmitInvalid ==
    /\ screen \in FormScreens
    /\ content' = [content EXCEPT !.body = "formError"]
    /\ UNCHANGED <<serviceVars, cliVars, errorLog, activeViewId, screen, pending, timers,
                   realtimeInterval, countdown, lastSummary, ticksSince, autoSince>>

\* showPathReport up to its await: a range was chosen, or R pressed in the report.
showPathReport ==
    /\ screen \in {"pathRange", "pathCustom", "pathReport"}
    /\ Len(pending) < MaxPending
    /\ clearContentThen("pathReport", NoSummaryBox, "loading")
    /\ pending' = Append(pending, Call(activeViewId + 1, "path", "open"))
    /\ UNCHANGED <<countdown, lastSummary, ticksSince, autoSince>>

showTopPagesReport ==
    /\ screen \in {"pagesRange", "pagesCustom", "topPages"}
    /\ Len(pending) < MaxPending
    /\ clearContentThen("topPages", NoSummaryBox, "loading")
    /\ pending' = Append(pending, Call(activeViewId + 1, "pages", "open"))
    /\ UNCHANGED <<countdown, lastSummary, ticksSince, autoSince>>

\* showRealtime up to await refresh().
showRealtime ==
    /\ screen = "menu"
    /\ Len(pending) < MaxPending
    /\ clearContentThen("realtime", Summary("loading", "none", 0), "loading")
    /\ pending' = Append(pending, Call(activeViewId + 1, "realtime", "open"))
    /\ countdown' = CountdownStart
    /\ lastSummary' = NoSummary
    /\ ticksSince' = 0
    /\ autoSince' = 0

\* pagesBox.key(['r'], () => refresh())
RefreshKey ==
    /\ screen = "realtime"
    /\ Len(pending) < MaxPending
    /\ pending' = Append(pending, Call(activeViewId, "realtime", "key"))
    /\ UNCHANGED <<serviceVars, cliVars, errorLog, activeViewId, screen, content, timers,
                   realtimeInterval, countdown, lastSummary, ticksSince, autoSince>>

\* A tick at countdown 0 that starts no refresh.
timerRefreshSkipped(v) == UNCHANGED <<pending, autoSince, content, countdown>>

\* The timer refreshes whatever the state of earlier refreshes: refresh() is not
\* awaited by tick.
timerRefresh(v) ==
    /\ Len(pending) < MaxPending
    /\ pending' = Append(pending, Call(v, "realtime", "timer"))
    /\ autoSince' = autoSince + 1
    /\ UNCHANGED <<content, countdown>>

\* const tick of the realtime view v, called by its timer every second.
tick(v) ==
    IF v # activeViewId
    THEN UNCHANGED vars
    ELSE /\ ticksSince < MaxTicks
         /\ ticksSince' = ticksSince + 1
         /\ IF countdown > 0
            THEN /\ content' = IF lastSummary # NoSummary
                               THEN [content EXCEPT
                                        !.summary = Summary("summary", lastSummary, countdown)]
                               ELSE content
                 /\ countdown' = countdown - 1
                 /\ UNCHANGED <<pending, autoSince>>
            ELSE timerRefresh(v)
         /\ UNCHANGED <<serviceVars, cliVars, errorLog, activeViewId, screen, timers,
                        realtimeInterval, lastSummary>>

Tick == \E v \in timers : tick(v)

\* pending without its i-th call.
Without(calls, i) == SubSeq(calls, 1, i - 1) \o SubSeq(calls, i + 1, Len(calls))

\* The calls left in flight once the i-th has settled: when its continuation
\* renders, the calls of its view started before it are overtaken.
Settle(calls, i, renders) ==
    [k \in 1..(Len(calls) - 1) |->
        LET c == IF k < i THEN calls[k] ELSE calls[k + 1]
        IN IF renders /\ k < i /\ c.viewId = calls[i].viewId
           THEN [c EXCEPT !.overtaken = TRUE]
           ELSE c]

\* logError(error, context): the context of the entry appended.
LogContext(kind) ==
    CASE kind = "path" -> "tui:showPathReport"
      [] kind = "pages" -> "tui:showTopPagesReport"
      [] kind = "realtime" -> "tui:showRealtime"

\* A continuation that renders whatever the view on display is.
isStaleNever(p) == FALSE

\* if (viewId !== this.activeViewId) return;
isStale(p) == p.viewId # activeViewId

\* What the continuation of a call renders when it resolved.
Rendered(p, o) ==
    IF p.kind = "realtime"
    THEN [owner |-> p.viewId, summary |-> Summary("summary", o.data, 0), body |-> o.data]
    ELSE [owner |-> p.viewId, summary |-> NoSummaryBox, body |-> o.data]

\* What it renders when the call rejected.
RenderedError(p) ==
    IF p.kind = "realtime"
    THEN [owner |-> p.viewId, summary |-> Summary("error", "none", 0), body |-> "logged"]
    ELSE [owner |-> p.viewId, summary |-> NoSummaryBox, body |-> "error"]

\* The code after the await of the i-th call in flight, which settled with outcome o:
\* the try or the catch block of showPathReport, showTopPagesReport or refresh, and
\* for the first refresh of a realtime view the setInterval that follows it.
respond(i, o) ==
    LET p == pending[i]
    IN /\ o.ok => propertyId # Null
       /\ pending' = Settle(pending, i, ~isStale(p))
       /\ IF isStale(p)
          THEN UNCHANGED <<content, errorLog, countdown, lastSummary, ticksSince, autoSince>>
          ELSE IF o.ok
          THEN /\ content' = Rendered(p, o)
               /\ IF p.kind = "realtime"
                  THEN /\ lastSummary' = o.data
                       /\ countdown' = CountdownStart
                       /\ ticksSince' = 0
                       /\ autoSince' = 0
                  ELSE UNCHANGED <<lastSummary, countdown, ticksSince, autoSince>>
               /\ UNCHANGED errorLog
          ELSE /\ Len(errorLog) < MaxLog
               /\ errorLog' = logError(errorLog, LogEntry(LogContext(p.kind),
                                     IF Falsy(propertyId) THEN ErrNoProperty
                                     ELSE ErrUpstream))
               /\ content' = RenderedError(p)
               /\ UNCHANGED <<lastSummary, countdown, ticksSince, autoSince>>
       /\ IF p.kind = "realtime" /\ p.trigger = "open"
          THEN /\ timers' = timers \cup {p.viewId}
               /\ realtimeInterval' = p.viewId
          ELSE UNCHANGED <<timers, realtimeInterval>>
       /\ UNCHANGED <<serviceVars, cliVars, activeViewId, screen>>

Respond == \E i \in 1..Len(pending), o \in Outcomes : respond(i, o)

\* this.screen.key(['q', 'C-c'], ...): stopRealtime() and process.exit(0).
Quit ==
    /\ screen \in Screens
    /\ screen' = "exited"
    /\ exitCode' = 0
    /\ activeViewId' = 0
    /\ content' = Blank
    /\ pending' = <<>>
    /\ timers' = {}
    /\ realtimeInterval' = NoTimer
    /\ countdown' = 0
    /\ lastSummary' = NoSummary
    /\ ticksSince' = 0
    /\ autoSince' = 0
    /\ UNCHANGED <<serviceVars, errorLog, argv, configFile, credsFile, cliPc, stdio>>

NextTui ==
    \/ showMenu
    \/ showTopPagesDateRange
    \/ showPathInput
    \/ showPathDateRange
    \/ showCustomDateRangeInput
    \/ SubmitInvalid
    \/ showPathReport
    \/ showTopPagesReport
    \/ showRealtime
    \/ RefreshKey
    \/ Tick
    \/ Respond
    \/ Quit

SpecTui == InitTui /\ [][NextTui]_vars

\* The views with the scheduling the event loop gives: a running interval timer
\* fires again and again, and every call in flight settles.
SpecTuiLive == SpecTui /\ WF_vars(Tick) /\ WF_vars(Respond)

----------------------------------------------------------------------------
(* The command line: parseArgs, resolveDateRange, main and runCliCommand. *)

\* The value true of an option given without a value.
True == <<"true-value">>

\* Command words and option tokens.
WHelp == <<"h", "e", "l", "p">>
WInit == <<"i", "n", "i", "t">>
WTui == <<"t", "u", "i">>
WRealtime == <<"r", "e", "a", "l", "t", "i", "m", "e">>
WReport == <<"r", "e", "p", "o", "r", "t">>
WPages == <<"p", "a", "g", "e", "s">>
WPath == <<"p", "a", "t", "h">>
WBogus == <<"b", "o", "g", "u", "s">>
WCustom == <<"c", "u", "s", "t", "o", "m">>
WLast30 == <<"l", "a", "s", "t", "3", "0">>
WCreds == <<"k", ".", "j", "s", "o", "n">>
KProperty == <<"p", "r", "o", "p", "e", "r", "t", "y">>
KJson == <<"j", "s", "o", "n">>
KRange == <<"r", "a", "n", "g", "e">>
KStartDate == <<"s", "t", "a", "r", "t", "-", "d", "a", "t", "e">>
KEndDate == <<"e", "n", "d", "-", "d", "a", "t", "e">>
KLimit == <<"l", "i", "m", "i", "t">>
Flag(key) == <<"-", "-">> \o key
Date1 == <<"2", "0", "2", "6", "-", "0", "2", "-", "0", "1">>
Date2 == <<"2", "0", "2", "6", "-", "0", "2", "-", "2", "5">>
DateBad == <<"2", "0", "2", "6", "/", "0", "2", "/", "0", "1">>
DatePadded == <<"2", "0", "2", "6", "-", "0", "2", "-", "0", "1", " ">>

\* token.startsWith('--')
StartsWithDashes(t) == Len(t) >= 2 /\ t[1] = "-" /\ t[2] = "-"

\* options[key]
Opt(options, key) == IF key \in DOMAIN options THEN options[key] ELSE Undefined

\* options[key] = value
SetOpt(options, key, value) ==
    [k \in DOMAIN options \cup {key} |-> IF k = key THEN value ELSE options[k]]

\* The loop of parseArgs from index i on (1-based).
RECURSIVE ParseFrom(_, _, _, _)
ParseFrom(args, i, options, positionals) ==
    IF i > Len(args) THEN [positionals |-> positionals, options |-> options]
    ELSE IF StartsWithDashes(args[i])
    THEN LET takesNext == /\ i + 1 <= Len(args)
                          /\ ~Falsy(args[i + 1])
                          /\ ~StartsWithDashes(args[i + 1])
             value == IF takesNext THEN args[i + 1] ELSE True
         IN ParseFrom(args, IF takesNext THEN i + 2 ELSE i + 1,
                      SetOpt(options, Tail2(args[i], 2), value), positionals)
    ELSE ParseFrom(args, i + 1, options, Append(positionals, args[i]))

parseArgs(args) == ParseFrom(args, 1, <<>>, <<>>)

\* positionals[i] (0-based), undefined beyond the end.
Positional(a, i) == IF i + 1 <= Len(a.positionals) THEN a.positionals[i + 1] ELSE Undefined

\* const command = positionals[0] || 'tui'
CommandOf(a) == OrElse(Positional(a, 0), WTui)

\* String(v) of an option value.
ToStr(v) ==
    IF v = True THEN <<"t", "r", "u", "e">>
    ELSE IF v = Undefined THEN <<"u", "n", "d", "e", "f", "i", "n", "e", "d">>
    ELSE v

\* /^\d{4}-\d{2}-\d{2}$/.test(String(value || '').trim())
isIsoDate(value) ==
    LET t == Trim(ToStr(OrElse(value, EmptyStr)))
    IN /\ Len(t) = 10
       /\ \A k \in {1, 2, 3, 4, 6, 7, 9, 10} : t[k] \in Digits
       /\ t[5] = "-"
       /\ t[8] = "-"

\* A date relative to today, as getDateRange computes it before formatting.
Ago(n, unit) == [ago |-> n, unit |-> unit]

\* getDateRange(range)
getDateRange(range) ==
    CASE range = <<"t", "o", "d", "a", "y">> ->
            [startDate |-> Ago(0, "days"), endDate |-> Ago(0, "days")]
      [] range = <<"y", "e", "s", "t", "e", "r", "d", "a", "y">> ->
            [startDate |-> Ago(1, "days"), endDate |-> Ago(1, "days")]
      [] range = WLast30 ->
            [startDate |-> Ago(30, "days"), endDate |-> Ago(0, "days")]
      [] range = <<"l", "a", "s", "t", "9", "0">> ->
            [startDate |-> Ago(90, "days"), endDate |-> Ago(0, "days")]
      [] range \in {<<"a", "l", "l">>, <<"a", "l", "l", "t", "i", "m", "e">>} ->
            [startDate |-> Ago(5, "years"), endDate |-> Ago(0, "days")]
      [] OTHER ->
            [startDate |-> Ago(7, "days"), endDate |-> Ago(0, "days")]

ErrCustomRange == "Custom range requires both --start-date and --end-date"
ErrDateFormat == "Dates must use YYYY-MM-DD format"
ErrLimit == "--limit must be a positive integer"
ErrUnsupported == "Unsupported command"
ErrConfigJson == "config.json is not valid JSON"
ErrCredentials == "credentials file unreadable or not valid JSON"

\* resolveDateRange(options): the error it throws, NoError when it returns.
resolveDateRangeError(options) ==
    LET range == Opt(options, KRange)
        startDate == Opt(options, KStartDate)
        endDate == Opt(options, KEndDate)
        hasCustomRange == ~Falsy(startDate) \/ ~Falsy(endDate)
    IN IF range = WCustom \/ hasCustomRange
       THEN IF Falsy(startDate) \/ Falsy(endDate) THEN ErrCustomRange
            ELSE IF ~isIsoDate(startDate) \/ ~isIsoDate(endDate) THEN ErrDateFormat
            ELSE NoError
       ELSE NoError

\* resolveDateRange(options): the range it returns.
resolveDateRange(options) ==
    LET range == Opt(options, KRange)
        startDate == Opt(options, KStartDate)
        endDate == Opt(options, KEndDate)
        hasCustomRange == ~Falsy(startDate) \/ ~Falsy(endDate)
    IN IF range = WCustom \/ hasCustomRange
       THEN [startDate |-> startDate, endDate |-> endDate]
       ELSE getDateRange(range)

\* const limit = options.limit ? parseInt(options.limit, 10) : 20, NaN when it does
\* not parse.
limitOf(options) ==
    IF Falsy(Opt(options, KLimit)) THEN 20
    ELSE IF IsNaN(ParseInt(ToStr(Opt(options, KLimit)))) THEN NaN
    ELSE ParseInt(ToStr(Opt(options, KLimit))) \div Scale

KHelp == <<"h", "e", "l", "p">>
KPath == <<"p", "a", "t", "h">>

\* process.exit(1) and process.exit(0)
ExitSuccess == 0
ExitFailure == 1

\* ~/.ga4-cli/config.json: missing, not valid JSON, or a configuration.
ConfigFile(state, property, credentials) ==
    [state |-> state, propertyId |-> property, credentials |-> credentials]
NoConfigFile == ConfigFile("missing", Null, "none")
ConfigFiles ==
    { NoConfigFile,
      ConfigFile("malformed", Null, "none"),
      ConfigFile("ok", Null, "old"),
      ConfigFile("ok", P1, "old") }
CredsFiles == {"missing", "malformed", "ok"}

\* Command lines: help, init, each report command with good and bad arguments, and
\* an unknown command.
InitArgvs == { <<WInit>>, <<WInit, WCreds>> }
CommandArgvs ==
    { <<WHelp>>,
      <<WTui>>,
      <<WRealtime>>,
      <<WRealtime, Flag(KProperty), P2, Flag(KJson)>>,
      <<WReport, Flag(KRange), WCustom>>,
      <<WReport, Flag(KStartDate), Date1, Flag(KEndDate), Date2>>,
      <<WPages, Flag(KLimit), S0>>,
      <<WPages, Flag(KLimit), S5, Flag(KRange), WLast30>>,
      <<WPages, Flag(KStartDate), DateBad, Flag(KEndDate), Date2>>,
      <<WReport, Flag(KStartDate), DatePadded, Flag(KEndDate), Date2>>,
      <<WReport, Flag(KEndDate), Date2>>,
      <<WPath, <<"a">>, Flag(KStartDate), Date2, Flag(KEndDate), Date1>>,
      <<WPath>>,
      <<WPath, <<"a">>>>,
      <<WPath, <<" ">>, Flag(KProperty), P2>>,
      <<WBogus>> }

EarlierEntry == LogEntry(<<"main:", "r", "e", "p", "o", "r", "t">>, ErrUpstream)

InitCli ==
    /\ propertyId = Null
    /\ NoCall
    /\ TuiOff
    /\ errorLog \in {<<>>, <<EarlierEntry>>}
    /\ cliPc = "main"
    /\ exitCode = Null
    /\ stdio = <<>>
    /\ \/ argv \in InitArgvs /\ configFile \in ConfigFiles /\ credsFile \in CredsFiles
       \/ argv \in CommandArgvs /\ configFile \in ConfigFiles /\ credsFile = "missing"

\* console.log / console.error
Out(stream, text, value) == [stream |-> stream, text |-> text, value |-> value]

\* The process ends with the given exit code.
exits(code) ==
    /\ cliPc' = "exited"
    /\ exitCode' = code

\* A handler that logs and prints the error but lets the process end normally.
exitWithLoggedErrorReturning(message, context) ==
    /\ errorLog' = logError(errorLog, LogEntry(context, message))
    /\ stdio' = stdio \o <<Out("stderr", "Error:", message),
                           Out("stderr", "Details logged to:", "errors.log")>>
    /\ exits(ExitSuccess)

\* exitWithLoggedError(error, context): logError, the two lines on stderr and
\* process.exit(1).
exitWithLoggedError(message, context) ==
    /\ errorLog' = logError(errorLog, LogEntry(context, message))
    /\ stdio' = stdio \o <<Out("stderr", "Error:", message),
                           Out("stderr", "Details logged to:", "errors.log")>>
    /\ exits(ExitFailure)

\* `main:${command}`
MainContext(command) == <<"main:">> \o command

\* An initGA that writes the config file before it has read the credentials.
initGAWriteFirst ==
    /\ configFile' = ConfigFile("ok", Null, "new")
    /\ IF credsFile = "ok"
       THEN /\ stdio' = Append(stdio, Out("stdout", "Configuration saved!", ""))
            /\ exits(ExitSuccess)
            /\ UNCHANGED errorLog
       ELSE exitWithLoggedError(ErrCredentials, <<"initGA">>)

\* initGA(credentialsPath)
initGA ==
    IF credsFile = "ok"
    THEN /\ configFile' = ConfigFile("ok", Null, "new")
         /\ stdio' = Append(stdio, Out("stdout", "Configuration saved!", ""))
         /\ exits(ExitSuccess)
         /\ UNCHANGED errorLog
    ELSE /\ exitWithLoggedError(ErrCredentials, <<"initGA">>)
         /\ UNCHANGED configFile

\* new GA4Service() in main, then if (options.property) service.setPropertyId(...).
constructService(command, options) ==
    IF configFile.state = "missing"
    THEN /\ stdio' = stdio \o <<Out("stdout", "No config found", ""),
                                Out("stdout", "Run with: ga4 init", "")>>
         /\ exits(ExitFailure)
         /\ UNCHANGED <<errorLog, propertyId>>
    ELSE IF configFile.state = "malformed"
    THEN /\ exitWithLoggedError(ErrConfigJson, <<"loadConfig">>)
         /\ UNCHANGED propertyId
    ELSE /\ propertyId' = IF ~Falsy(Opt(options, KProperty))
                          THEN ToStr(Opt(options, KProperty))
                          ELSE IF ~Falsy(configFile.propertyId) THEN configFile.propertyId
                          ELSE Null
         /\ cliPc' = IF command = WTui THEN "tui" ELSE "runCliCommand"
         /\ UNCHANGED <<errorLog, stdio, exitCode>>

\* main() up to the call of runCliCommand.
Main ==
    /\ cliPc = "main"
    /\ LET a == parseArgs(argv)
           command == CommandOf(a)
       IN IF command = WHelp \/ ~Falsy(Opt(a.options, KHelp))
          THEN /\ stdio' = Append(stdio, Out("stdout", "usage", ""))
               /\ exits(ExitSuccess)
               /\ UNCHANGED <<errorLog, propertyId, configFile>>
          ELSE IF command = WInit
          THEN IF Falsy(Positional(a, 1))
               THEN /\ stdio' = Append(stdio, Out("stdout", "usage", ""))
                    /\ exits(ExitFailure)
                    /\ UNCHANGED <<errorLog, propertyId, configFile>>
               ELSE initGA /\ UNCHANGED propertyId
          ELSE constructService(command, a.options) /\ UNCHANGED configFile
    /\ UNCHANGED <<op, pc, pathInput, pathVariants, basePath, queries, res, res1, res2,
                   report, error, tuiVars, argv, credsFile>>

\* const pathArg = options.path ?? positionals[1]
pathArgOf(a) ==
    IF Opt(a.options, KPath) \notin {Undefined, Null} THEN Opt(a.options, KPath)
    ELSE Positional(a, 1)

\* isNaN(limit) || limit <= 0
limitInvalid(options) == IsNaN(limitOf(options)) \/ limitOf(options) <= 0

\* An error thrown inside the try block of main: the catch calls
\* exitWithLoggedError(error, `main:${command}`).
mainCatches(message, command) ==
    /\ exitWithLoggedError(message, MainContext(command))
    /\ UNCHANGED serviceVars

\* A service call of runCliCommand is awaited.
awaits == cliPc' = "awaiting" /\ UNCHANGED <<errorLog, stdio, exitCode>>

\* runCliCommand(service, command, options, positionals) up to its await. Its
\* setPropertyId(options.property) repeats the one main already made.
RunCliCommand ==
    /\ cliPc = "runCliCommand"
    /\ LET a == parseArgs(argv)
           command == CommandOf(a)
           options == a.options
       IN CASE command = WRealtime ->
                 /\ operationStarts("getRealtimeSummary", resolveDateRange(options), 20)
                 /\ awaits
            [] command = WReport ->
                 IF resolveDateRangeError(options) # NoError
                 THEN mainCatches(resolveDateRangeError(options), command)
                 ELSE /\ operationStarts("getReportSummary", resolveDateRange(options), 20)
                      /\ awaits
            [] command = WPages ->
                 IF resolveDateRangeError(options) # NoError
                 THEN mainCatches(resolveDateRangeError(options), command)
                 ELSE IF limitInvalid(options)
                 THEN mainCatches(ErrLimit, command)
                 ELSE /\ operationStarts("getTopPagesReport", resolveDateRange(options),
                                         limitOf(options))
                      /\ awaits
            [] command = WPath ->
                 IF Falsy(pathArgOf(a))
                 THEN /\ stdio' = Append(stdio, Out("stderr", "Usage: ga4 path", ""))
                      /\ exits(ExitFailure)
                      /\ UNCHANGED <<errorLog, serviceVars>>
                 ELSE IF resolveDateRangeError(options) # NoError
                 THEN mainCatches(resolveDateRangeError(options), command)
                 ELSE /\ getPathReportStarts(pathArgOf(a), resolveDateRange(options))
                      /\ awaits
            [] OTHER -> mainCatches(ErrUnsupported, command)
    /\ UNCHANGED <<tuiVars, argv, configFile, credsFile>>

\* The awaited call has settled: runCliCommand prints the result and main returns,
\* or the rejection reaches the catch of main.
CommandSettles ==
    /\ cliPc = "awaiting"
    /\ Settled
    /\ LET a == parseArgs(argv)
       IN IF pc \in {"rejected", "threw"}
          THEN mainCatches(error, CommandOf(a))
          ELSE /\ stdio' = Append(stdio,
                       Out("stdout",
                           IF ~Falsy(Opt(a.options, KJson)) THEN "json" ELSE "text",
                           report))
               /\ exits(ExitSuccess)
               /\ UNCHANGED <<errorLog, serviceVars>>
    /\ UNCHANGED <<tuiVars, argv, configFile, credsFile>>

NextCli ==
    \/ Main
    \/ RunCliCommand
    \/ QueryResolves
    \/ QueryRejects
    \/ RunReport1Resolves
    \/ RunReport1Rejects
    \/ RunReport2Resolves
    \/ RunReport2Rejects
    \/ CommandSettles

SpecCli == InitCli /\ [][NextCli]_vars

----------------------------------------------------------------------------
(* Properties of getPathReport (specification Spec). *)

\* The response a resolved call built its report from, by the number of queries.
UsedResponse == IF Len(queries) = 2 THEN res2 ELSE res1
UsedRows == UsedResponse.rows
UsedTotals == UsedResponse.totals

\* A string of zeros only.
IsZeroNumeral(v) == v # <<>> /\ \A k \in 1..Len(v) : v[k] = "0"

\* The aggregate pageview total of a response is absent or zero.
TotalViewsZeroOrAbsent(r) ==
    \/ Len(r.totals) < 4
    \/ r.totals[4] \in {Undefined, EmptyStr}
    \/ IsZeroNumeral(r.totals[4])

\* C1: the prefix-match fallback query is issued if and only if the phase-1 response
\* has zero rows and a zero or absent aggregate pageview total; a phase-1 response
\* with a row or a non-zero total is never followed by a second query.
C1_FallbackIffPhase1Empty ==
    res1 # NoResponse =>
        /\ Len(queries) = 2 <=> (Len(res1.rows) = 0 /\ TotalViewsZeroOrAbsent(res1))
        /\ Len(queries) = 2 =>
              /\ queries[1].dimensionFilter.filter = "inListFilter"
              /\ queries[2].dimensionFilter.filter = "stringFilter"
              /\ queries[2].dimensionFilter.matchType = "BEGINS_WITH"
        /\ Len(queries) # 2 => Len(queries) = 1 /\ pc = "resolved"

C1_Witness ==
    /\ pc = "runReport2"
    /\ Len(queries) = 2
    /\ res1.rows = <<>>
    /\ TotalViewsZeroOrAbsent(res1)

\* C2: a report is computed from exactly one response, phase 1's when no fallback was
\* issued and phase 2's otherwise; rows and totals of the two responses are never
\* combined, and a call issues at most two queries.
C2_ReportFromOneResponse ==
    /\ Len(queries) <= 2
    /\ pc = "resolved" =>
          /\ Len(queries) \in {1, 2}
          /\ res = UsedResponse
          /\ Len(report.byPath) = Len(UsedRows)
          /\ report.byPath = byPathOf(UsedRows)
          /\ \A i \in MetricIdx : report.metrics[i + 1] = metric(UsedResponse, i)

C2_Witness ==
    /\ pc = "resolved"
    /\ Len(queries) = 2
    /\ res1.totals # <<>>
    /\ Len(res2.rows) >= 1
    /\ res2.totals = <<>>

----------------------------------------------------------------------------
(* Aggregation properties, stated with sums written independently of the reducers. *)

WeightedIdx == {5, 6, 7}

\* The number a row holds for metric i: a missing or empty field counts 0.
FieldNum(row, i) ==
    LET v == IF i + 1 <= Len(row.mv) THEN row.mv[i + 1] ELSE Undefined
    IN ParseFloat(IF v \in {Undefined, EmptyStr} THEN S0 ELSE v)

\* The same with a malformed field counting 0 as well.
FieldNumOrZero(row, i) == IF FieldNum(row, i) = NaN THEN 0 ELSE FieldNum(row, i)

AllNumeric(rows, i) == \A k \in 1..Len(rows) : FieldNum(rows[k], i) # NaN

RECURSIVE SumOfTerms(_, _)
SumOfTerms(f, n) == IF n = 0 THEN 0 ELSE f[n] + SumOfTerms(f, n - 1)

\* Sum over the rows of metric i.
PlainSum(rows, i) == SumOfTerms([k \in 1..Len(rows) |-> FieldNumOrZero(rows[k], i)], Len(rows))

\* Sum over the rows of metric i times metric w.
ProductSum(rows, i, w) ==
    SumOfTerms([k \in 1..Len(rows) |->
                   FieldNumOrZero(rows[k], i) * FieldNumOrZero(rows[k], w)], Len(rows))

\* The average of metric i weighted by metric w, rounded to two decimals; "0" when the
\* weights do not sum to a positive number, "NaN" when a value of metric i is not
\* numeric.
WeightedAverage(rows, i, w) ==
    IF ~AllNumeric(rows, w) \/ PlainSum(rows, w) = 0 THEN S0
    ELSE IF ~AllNumeric(rows, i) THEN <<"N", "a", "N">>
    ELSE NumToString((2 * ProductSum(rows, i, w) + PlainSum(rows, w))
                        \div (2 * PlainSum(rows, w)))

TotalsProvide(i) == i + 1 <= Len(UsedTotals) /\ UsedTotals[i + 1] \notin {Undefined, EmptyStr}

\* A complete tuple of numeric metric values.
WellFormed(mv) ==
    /\ Len(mv) = Len(MetricNames)
    /\ \A k \in 1..Len(mv) : mv[k] \notin {Undefined, EmptyStr} /\ ParseFloat(mv[k]) # NaN

\* Every row of the used response is well formed, with sessions and pageviews.
RowsNumeric ==
    \A k \in 1..Len(UsedRows) :
        /\ WellFormed(UsedRows[k].mv)
        /\ FieldNum(UsedRows[k], 0) > 0
        /\ FieldNum(UsedRows[k], 3) > 0
\* The used response carries no totals or well-formed ones.
TotalsNumeric == UsedTotals = <<>> \/ WellFormed(UsedTotals)

C4_PlainSums ==
    (pc = "resolved" /\ Len(UsedRows) > 1 /\ RowsNumeric /\ TotalsNumeric) =>
        \A i \in SummableIdx : report.metrics[i + 1] = NumToString(PlainSum(UsedRows, i))

\* C4 amended: with more than one row, each of sessions, totalUsers, newUsers,
\* pageviews and eventCount that the totals do not provide equals the sum of that
\* metric over all returned rows, a missing field counting 0; when a row's field for
\* it is not numeric the result is "NaN".
C4_SumsUnlessTotals ==
    (pc = "resolved" /\ Len(UsedRows) > 1) =>
        \A i \in SummableIdx :
            ~TotalsProvide(i) =>
                report.metrics[i + 1] =
                    IF AllNumeric(UsedRows, i) THEN NumToString(PlainSum(UsedRows, i))
                    ELSE <<"N", "a", "N">>

C4_Witness ==
    /\ pc = "resolved"
    /\ Len(UsedRows) = 2
    /\ UsedTotals = <<>>
    /\ \A i \in SummableIdx : AllNumeric(UsedRows, i)
    /\ report.metrics[1] = <<"4", "0">>
    /\ report.metrics[3] = <<"2">>
    /\ report.metrics[4] = <<"1", "0", "0">>

\* The value a single row holds for metric i, "0" when missing.
RowValue(row, i) ==
    LET v == IF i + 1 <= Len(row.mv) THEN row.mv[i + 1] ELSE Undefined
    IN IF v \in {Undefined, EmptyStr} THEN S0 ELSE v

\* A canonical natural numeral: digits only, no leading zero.
IsPlainNumeral(v) ==
    /\ v # <<>>
    /\ \A k \in 1..Len(v) : v[k] \in Digits
    /\ (Len(v) > 1 => v[1] # "0")

\* C5 as stated, in its plainest case (a response without totals whose row is well
\* formed): with exactly one row every summary metric equals that row's value for
\* the metric directly.
C5_SingleRowVerbatim ==
    (pc = "resolved" /\ Len(UsedRows) = 1 /\ UsedTotals = <<>> /\ RowsNumeric) =>
        \A i \in MetricIdx : report.metrics[i + 1] = RowValue(UsedRows[1], i)

\* C5 amended: with exactly one row, each metric the totals do not provide is taken
\* from that row without averaging: averageSessionDuration, bounceRate and
\* engagementRate are the row's value passed through the display formatter, and the
\* five summable metrics are the row's value parsed and printed as a number, which is
\* the row's value itself whenever that is a plain numeral.
C5_SingleRowDirect ==
    (pc = "resolved" /\ Len(UsedRows) = 1) =>
        \A i \in MetricIdx :
            ~TotalsProvide(i) =>
                /\ i \in WeightedIdx =>
                      report.metrics[i + 1] = formatMetric(i, RowValue(UsedRows[1], i))
                /\ i \in SummableIdx =>
                      /\ report.metrics[i + 1] = NumToString(FieldNum(UsedRows[1], i))
                      /\ IsPlainNumeral(RowValue(UsedRows[1], i)) =>
                            report.metrics[i + 1] = RowValue(UsedRows[1], i)

C5_Witness ==
    /\ pc = "resolved"
    /\ Len(UsedRows) = 1
    /\ UsedTotals = <<>>
    /\ UsedRows[1].mv = <<S0, S0, S0, S5, S5, SDur, SRateHi, SRatePct>>
    /\ report.metrics = <<S0, S0, S0, S5, S5, <<"1", "2", "5", ".", "5">>, <<"5", "0">>,
                          SRatePct>>

\* C6 as stated, on responses whose totals, if any, are well formed: when the response
\* used for the report has zero rows, all eight summary metrics are "0" and byPath is
\* empty.
C6_ZeroRowsAllZero ==
    (pc = "resolved" /\ Len(UsedRows) = 0 /\ TotalsNumeric) =>
        /\ report.byPath = <<>>
        /\ \A i \in MetricIdx : report.metrics[i + 1] = S0

\* C6 amended: when the response used for the report has zero rows, byPath is empty
\* and every summary metric that the response's totals do not provide is "0".
C6_ZeroRowsZeroUnlessTotals ==
    (pc = "resolved" /\ Len(UsedRows) = 0) =>
        /\ report.byPath = <<>>
        /\ \A i \in MetricIdx : ~TotalsProvide(i) => report.metrics[i + 1] = S0

C6_Witness ==
    /\ pc = "resolved"
    /\ Len(queries) = 2
    /\ res2.rows = <<>>
    /\ res2.totals = <<>>
    /\ report.byPath = <<>>
    /\ \A i \in MetricIdx : report.metrics[i + 1] = S0

\* A numeral with a digit other than zero.
IsNonZeroNumeral(v) ==
    /\ v # <<>>
    /\ \A k \in 1..Len(v) : v[k] \in Digits
    /\ \E k \in 1..Len(v) : v[k] # "0"

TotalViewsNonZero(r) == Len(r.totals) >= 4 /\ IsNonZeroNumeral(r.totals[4])

\* C7: when phase 1 returns a non-zero aggregate pageview total and zero rows, no
\* fallback query is issued, every summary metric is the (display-formatted) value of
\* the totals object, "0" where the totals hold none, and byPath is empty.
C7_TotalsWithoutRows ==
    (res1 # NoResponse /\ Len(res1.rows) = 0 /\ TotalViewsNonZero(res1)) =>
        /\ pc = "resolved"
        /\ Len(queries) = 1
        /\ res2 = NoResponse
        /\ report.byPath = <<>>
        /\ \A i \in MetricIdx :
              report.metrics[i + 1] =
                  formatMetric(i, IF i + 1 <= Len(res1.totals)
                                     /\ res1.totals[i + 1] \notin {Undefined, EmptyStr}
                                  THEN res1.totals[i + 1] ELSE S0)

C7_Witness ==
    /\ pc = "resolved"
    /\ Len(queries) = 1
    /\ res1.rows = <<>>
    /\ res1.totals = <<S100, S70, S30, S100, S100, SDur, <<"0", ".", "4", "1">>, SRatePct>>
    /\ report.metrics = <<S100, S70, S30, S100, S100, <<"1", "2", "5", ".", "5">>,
                          <<"4", "1">>, SRatePct>>

----------------------------------------------------------------------------
(* Properties of getPathVariants (specification SpecVariants) and of the empty path. *)

\* The argument as a string, trimmed.
TrimmedInput == Trim(IF pathInput = Undefined THEN EmptyStr ELSE pathInput)
\* The trimmed argument with a leading slash.
SlashedInput == IF TrimmedInput # <<>> /\ TrimmedInput[1] = "/" THEN TrimmedInput
                ELSE <<"/">> \o TrimmedInput
EndsInSlash(v) == v # <<>> /\ v[Len(v)] = "/"

\* C8: for every path whose trimmed form with a leading slash is not "/",
\* getPathVariants returns exactly two distinct members, one ending in "/" and one
\* not ending in "/", both spellings of that same form with its case unchanged.
C8_TwoVariantsOneSlashed ==
    (pc = "variants" /\ TrimmedInput # <<>> /\ SlashedInput # <<"/">>) =>
        /\ Len(pathVariants) = 2
        /\ pathVariants[1] # pathVariants[2]
        /\ \E a, b \in {pathVariants[1], pathVariants[2]} :
              /\ EndsInSlash(a)
              /\ ~EndsInSlash(b)
              /\ a = b \o <<"/">>
              /\ SlashedInput \in {a, b}

\* C9: for a path that is "/" once trimmed, getPathVariants returns exactly <<"/">>.
C9_RootSingleton ==
    (pc = "variants" /\ TrimmedInput = <<"/">>) => pathVariants = << <<"/">> >>

C9_Witness ==
    /\ pc = "variants"
    /\ pathInput = <<" ", "/", " ">>
    /\ pathVariants = << <<"/">> >>

\* C10 as stated: a path that is empty after trimming makes getPathReport fail with
\* 'Path cannot be empty', and no remote query is issued for it.
C10_EmptyPathInvalidInput ==
    (op = "getPathReport" /\ pc # "idle" /\ TrimmedInput = <<>>) =>
        /\ pc = "rejected"
        /\ error = ErrEmptyPath
        /\ queries = <<>>

\* C10 amended: a path that is empty after trimming makes getPathReport fail without
\* any remote query: with 'Path cannot be empty' when a property id is set, and with
\* the missing-property error, which is checked first, when none is set.
C10_EmptyPathRejected ==
    (op = "getPathReport" /\ pc # "idle" /\ TrimmedInput = <<>>) =>
        /\ pc = "rejected"
        /\ queries = <<>>
        /\ report = NoReport
        /\ error = IF propertyId \in PropertyIds THEN ErrEmptyPath ELSE ErrNoProperty

C10_Witness ==
    /\ pc = "rejected"
    /\ pathInput = <<" ">>
    /\ propertyId \in PropertyIds
    /\ error = ErrEmptyPath
    /\ queries = <<>>

----------------------------------------------------------------------------
(* Malformed fields, zero weights and rate formatting. *)

\* A decimal number string: digits with at most a point among them.
IsNumberString(v) ==
    /\ v # <<>>
    /\ \A k \in 1..Len(v) : v[k] \in Digits \cup {"."}
    /\ \E k \in 1..Len(v) : v[k] \in Digits

\* C11 as stated, for a response without totals: whatever fields of the returned
\* rows are missing or malformed, they count as 0 and every summary metric of the
\* report is a number string, never NaN.
C11_MetricsAlwaysNumeric ==
    (pc = "resolved" /\ UsedTotals = <<>>) =>
        \A i \in MetricIdx : IsNumberString(report.metrics[i + 1])

\* C12: with more than one row and a total weight of zero (the weight being each
\* row's sessions count, the column the code weights by), the weighted average is
\* "0", never NaN, whatever the rows hold for the averaged metric; it is what the
\* report shows for every averaged metric the totals do not provide.
C12_ZeroWeightAverageZero ==
    (pc = "resolved" /\ Len(UsedRows) > 1 /\ AllNumeric(UsedRows, 0)
        /\ PlainSum(UsedRows, 0) = 0) =>
        \A i \in WeightedIdx :
            /\ weightedAvg(UsedRows, i, WeightIndex) = S0
            /\ ~TotalsProvide(i) => report.metrics[i + 1] = S0

C12_Witness ==
    /\ pc = "resolved"
    /\ Len(UsedRows) = 2
    /\ UsedTotals = <<>>
    /\ UsedRows[1].mv = <<S0, S0, S0, S5, S5, SDur, SRateHi, SRatePct>>
    /\ UsedRows[2].mv = <<S0, S0, S0, S5, S5, SBad, SBad, SRatePct>>
    /\ \A i \in WeightedIdx : report.metrics[i + 1] = S0

\* The unformatted value of a rate metric of the resolved call.
RawRate(i) == rawMetric(UsedResponse, i)
RateIdx == {6, 7}

\* C13 as stated, for numeric values: a rate strictly between 0 and 1 is multiplied
\* by 100 and rounded to one decimal; any other value is passed through rounded to
\* one decimal (42.37 becomes 42.4).
C13_RateRounded ==
    pc = "resolved" =>
        \A i \in RateIdx :
            LET n == ParseFloatFine(RawRate(i))
            IN n # NaN =>
                  report.metrics[i + 1] =
                      IF n > 0 /\ n < 10000 THEN NumToString(10 * ((n + 5) \div 10))
                      ELSE NumToString(10 * ((n + 500) \div 1000))

----------------------------------------------------------------------------
(* Failures of the service operations. *)

AllOps == SimpleOps \cup {"getPathReport"}
Failed == pc \in {"rejected", "threw"}

\* C14: every query operation (realtime summary, realtime top pages, report summary,
\* top pages, path report) called while no property id is set - none in the config
\* and none set since - fails with the missing-property error and issues no remote
\* query; when a property id has been set, as --property does, no call fails with
\* that error and every query issued carries the property id set.
C14_NoPropertyNoQuery ==
    /\ op \in AllOps \cup {"none"}
    /\ (op \in AllOps /\ propertyId = Null) =>
          /\ Failed
          /\ error = ErrNoProperty
          /\ queries = <<>>
    /\ (op \in AllOps /\ propertyId # Null) =>
          /\ error # ErrNoProperty
          /\ (~Failed => Len(queries) >= 1)
    /\ \A k \in 1..Len(queries) : queries[k].property = propertyId

C14_Witness ==
    /\ op = "getRealtimeTopPages"
    /\ propertyId = Null
    /\ pc = "threw"
    /\ error = ErrNoProperty
    /\ queries = <<>>

\* C15: when a remote query of getPathReport fails, the call fails with the upstream
\* error and issues no further query: after a failed phase-1 query exactly one query
\* has been issued, a second query is only ever issued after a phase-1 response, and
\* after a failed phase-2 query exactly two have been issued; no report is produced.
C15_UpstreamFailureEndsCall ==
    /\ Len(queries) = 2 => res1 # NoResponse
    /\ (op = "getPathReport" /\ pc = "rejected" /\ error = ErrUpstream) =>
          /\ report = NoReport
          /\ res2 = NoResponse
          /\ Len(queries) = IF res1 = NoResponse THEN 1 ELSE 2
    /\ (op = "getPathReport" /\ pc = "rejected") =>
          error \in {ErrUpstream, ErrNoProperty, ErrEmptyPath}
    /\ (op = "getPathReport" /\ pc \in {"runReport1", "runReport2", "resolved"}) =>
          error = NoError

C15_Witness ==
    /\ op = "getPathReport"
    /\ pc = "rejected"
    /\ error = ErrUpstream
    /\ res1 = NoResponse
    /\ Len(queries) = 1

----------------------------------------------------------------------------
(* Properties of the views (specification SpecTui). *)

\* The step delivers the outcome of a call whose view is no longer on display.
StaleDelivery ==
    \E i \in 1..Len(pending) :
        /\ pending' = Without(pending, i)
        /\ pending[i].viewId # activeViewId

\* C16: a response, success or failure, that arrives after the view has changed is
\* discarded: such a delivery leaves the content on display (and the error log) as
\* it was, so the content on display was always written by the view on display, for
\* the realtime, top-pages and path-report views in any interleaving.
C16_StaleResponsesDiscarded ==
    /\ [](content.owner = activeViewId)
    /\ [][StaleDelivery /\ screen' # "exited" =>
              /\ content' = content
              /\ errorLog' = errorLog
              /\ screen' = screen
              /\ activeViewId' = activeViewId]_vars

\* The first refresh of an earlier realtime view settled after the view was left:
\* its timer was started all the same, and the display belongs to the current view.
C16_Witness ==
    /\ screen \in Screens
    /\ realtimeInterval \notin {NoTimer, activeViewId}
    /\ realtimeInterval \in timers
    /\ content.owner = activeViewId
    /\ \E i \in 1..Len(pending) : pending[i].viewId = activeViewId

\* C17 as stated, for two consecutive ticks: the timer never starts a refresh while
\* the refresh it started before, for the same view, is still in flight.
C17_TicksNeverOverlap ==
    \A i, j \in 1..Len(pending) :
        (i < j /\ pending[i].trigger = "timer" /\ pending[j].trigger = "timer")
            => pending[i].viewId # pending[j].viewId

\* C18 as stated: in the realtime view, once a refresh has succeeded the timer starts
\* the next refresh on its fifth tick after that: five ticks have passed exactly when
\* an automatic refresh has been started.
C18_RefreshAtFifthTick ==
    (screen = "realtime" /\ lastSummary # NoSummary) =>
        (autoSince >= 1 <=> ticksSince >= CountdownStart)


----------------------------------------------------------------------------
(* Properties of the command line (specification SpecCli). *)

\* The invocation fails: a usage problem, a missing or malformed config, unreadable
\* credentials, an unknown command, a bad option, or a failed service call.
RunFails ==
    LET a == parseArgs(argv)
        command == CommandOf(a)
        options == a.options
    IN IF command = WHelp \/ ~Falsy(Opt(options, KHelp)) THEN FALSE
       ELSE IF command = WInit THEN Falsy(Positional(a, 1)) \/ credsFile # "ok"
       ELSE \/ configFile.state # "ok"
            \/ command \notin {WRealtime, WReport, WPages, WPath}
            \/ command = WPath /\ Falsy(pathArgOf(a))
            \/ command \in {WReport, WPages, WPath} /\ resolveDateRangeError(options) # NoError
            \/ command = WPages /\ limitInvalid(options)
            \/ error # NoError

\* C19: every headless invocation (init, realtime, report, pages, path, unknown
\* command) that has ended has exit code 1 when it failed and exit code 0 when it
\* completed without failure.
C19_ExitCodeReflectsFailure ==
    cliPc = "exited" =>
        /\ exitCode \in {0, 1}
        /\ exitCode = 1 <=> RunFails

\* A path command whose remote call was rejected has ended with exit code 1.
C19_Witness ==
    /\ cliPc = "exited"
    /\ exitCode = 1
    /\ CommandOf(parseArgs(argv)) = WPath
    /\ error = ErrUpstream


\* The step that ends the run with exit code 1.
FailingExit == cliPc # "exited" /\ cliPc' = "exited" /\ exitCode' = 1

\* The step appended one entry to the error log, printed that entry's message and
\* then the path of the log.
LoggedAndPrinted ==
    /\ Len(errorLog') = Len(errorLog) + 1
    /\ SubSeq(errorLog', 1, Len(errorLog)) = errorLog
    /\ LET e == errorLog'[Len(errorLog')]
       IN /\ e.context \in {MainContext(CommandOf(parseArgs(argv))), <<"loadConfig">>,
                            <<"initGA">>}
          /\ stdio' = stdio \o <<Out("stderr", "Error:", e.message),
                                 Out("stderr", "Details logged to:", "errors.log")>>

\* The run stops on a usage problem: init without a file, no config file, or path
\* without a path.
UsageExit ==
    LET a == parseArgs(argv)
        command == CommandOf(a)
    IN /\ command # WHelp
       /\ Falsy(Opt(a.options, KHelp))
       /\ IF command = WInit THEN Falsy(Positional(a, 1))
          ELSE \/ configFile.state = "missing"
               \/ configFile.state = "ok" /\ command = WPath /\ Falsy(pathArgOf(a))

\* The error log only grows at its end.
AppendOnly ==
    /\ Len(errorLog') >= Len(errorLog)
    /\ SubSeq(errorLog', 1, Len(errorLog)) = errorLog

IsIsoForm(v) ==
    /\ Len(v) = 10
    /\ \A k \in {1, 2, 3, 4, 6, 7, 9, 10} : v[k] \in Digits
    /\ v[5] = "-"
    /\ v[8] = "-"

\* The options of the command line.
CliOptions == parseArgs(argv).options

\* The run has got past the date-range resolution of report, pages or path.
DatesResolved ==
    /\ cliPc \in {"awaiting", "exited"}
    /\ configFile.state = "ok"
    /\ CommandOf(parseArgs(argv)) # WHelp
    /\ Falsy(Opt(CliOptions, KHelp))
    /\ \/ CommandOf(parseArgs(argv)) \in {WReport, WPages}
       \/ CommandOf(parseArgs(argv)) = WPath /\ ~Falsy(pathArgOf(parseArgs(argv)))

\* --range custom, or either --start-date or --end-date present.
CustomRequested ==
    \/ Opt(CliOptions, KRange) = WCustom
    \/ KStartDate \in DOMAIN CliOptions
    \/ KEndDate \in DOMAIN CliOptions

\* One of the two dates is missing or not in YYYY-MM-DD form.
CustomDatesInvalid ==
    \/ KStartDate \notin DOMAIN CliOptions
    \/ KEndDate \notin DOMAIN CliOptions
    \/ ~IsIsoForm(Opt(CliOptions, KStartDate))
    \/ ~IsIsoForm(Opt(CliOptions, KEndDate))

\* The run ended on an invalid-input error of the date-range resolution.
DateErrorRaised ==
    /\ cliPc = "exited"
    /\ exitCode = 1
    /\ errorLog # <<>>
    /\ errorLog[Len(errorLog)].message \in {ErrCustomRange, ErrDateFormat}
    /\ errorLog[Len(errorLog)].context = MainContext(CommandOf(parseArgs(argv)))

\* The range a valid command line asks for.
RequestedRange ==
    IF CustomRequested
    THEN [startDate |-> Opt(CliOptions, KStartDate), endDate |-> Opt(CliOptions, KEndDate)]
    ELSE getDateRange(Opt(CliOptions, KRange))

\* C21: once report, pages or path has resolved its date range, a custom request
\* with a date missing or not in YYYY-MM-DD form has ended the run with an
\* invalid-input error and no remote query; any other request raised no date error
\* and every query issued carries the explicit pair unchanged or the dates of the
\* symbolic range, last7 by default.
C21_DateRangeResolution ==
    DatesResolved =>
        IF CustomRequested /\ CustomDatesInvalid
        THEN DateErrorRaised /\ queries = <<>>
        ELSE /\ ~DateErrorRaised
             /\ \A i \in 1..Len(queries) : queries[i].dateRanges = <<RequestedRange>>


\* The step delivers, in the realtime view on display, the outcome of a refresh
\* started before one that has already rendered.
OvertakenDelivery ==
    \E i \in 1..Len(pending) :
        /\ pending[i].overtaken
        /\ pending[i].kind = "realtime"
        /\ pending[i].viewId = activeViewId
        /\ pending' = Settle(pending, i, TRUE)
        /\ screen' = "realtime"

\* C22 as stated: within one realtime view the response of an earlier-started
\* refresh, timer-triggered or manual, never overwrites what a later-started refresh
\* has already rendered.
C22_LatestRefreshWins ==
    [][OvertakenDelivery => content' = content /\ lastSummary' = lastSummary]_vars


----------------------------------------------------------------------------
(* Further properties of getPathReport (specification Spec). *)

\* C23 as stated: whenever the fallback query is issued, its begins-with prefix is
\* non-empty and starts with "/", for every valid input path, the root path included.
C23_FallbackPrefixUnderPath ==
    (op = "getPathReport" /\ Len(queries) = 2) =>
        /\ queries[2].dimensionFilter.matchType = "BEGINS_WITH"
        /\ queries[2].dimensionFilter.value # <<>>
        /\ StartsWithSlash(queries[2].dimensionFilter.value)


\* The aggregate of metric i over the rows: "0" without rows; the sum for the five
\* counts; for the three averages the row's own value when there is one row, the
\* sessions-weighted average otherwise.
RowAggregate(rows, i) ==
    IF Len(rows) = 0 THEN S0
    ELSE IF i \in SummableIdx
    THEN IF AllNumeric(rows, i) THEN NumToString(PlainSum(rows, i)) ELSE <<"N", "a", "N">>
    ELSE IF Len(rows) = 1 THEN RowValue(rows[1], i)
    ELSE WeightedAverage(rows, i, 0)

\* C24: each summary metric of the path report is computed from the value the
\* totals of the response provide for it when they provide one, and from the
\* aggregate over the returned rows exactly when they do not.
C24_TotalsElseRowAggregate ==
    pc = "resolved" =>
        \A i \in 0..(Len(MetricNames) - 1) :
            report.metrics[i + 1] =
                formatMetric(i, IF TotalsProvide(i) THEN UsedTotals[i + 1]
                                ELSE RowAggregate(UsedRows, i))

\* A report over two rows whose totals provide sessions but not totalUsers: sessions
\* is the totals' 5, totalUsers the rows' sum 5 + 5.
C24_Witness ==
    /\ pc = "resolved"
    /\ Len(UsedRows) = 2
    /\ TotalsProvide(0)
    /\ ~TotalsProvide(1)
    /\ report.metrics[1] = S5
    /\ report.metrics[2] = S10
    /\ PlainSum(UsedRows, 0) # 5 * Scale


\* The input with a leading slash, its trailing slash stripped.
StrippedInput ==
    IF EndsInSlash(SlashedInput) THEN SubSeq(SlashedInput, 1, Len(SlashedInput) - 1)
    ELSE SlashedInput

\* C25: the phase-2 request has the shape of the phase-1 request, the same property,
\* date range, pagePath dimension and 8 metrics in the same order, and differs only
\* in its filter: a case-insensitive BEGINS_WITH match on the input with a leading
\* slash and its trailing slash stripped, instead of the case-insensitive in-list
\* match on the path variants.
C25_FallbackSameShape ==
    (op = "getPathReport" /\ Len(queries) = 2) =>
        /\ DOMAIN queries[2] = DOMAIN queries[1]
        /\ \A f \in DOMAIN queries[1] \ {"dimensionFilter"} : queries[2][f] = queries[1][f]
        /\ queries[1].dimensions = <<"pagePath">>
        /\ queries[1].metrics =
               <<"sessions", "totalUsers", "newUsers", "screenPageViews", "eventCount",
                 "averageSessionDuration", "bounceRate", "engagementRate">>
        /\ queries[1].dimensionFilter =
               [fieldName |-> "pagePath", filter |-> "inListFilter",
                values |-> pathVariants, caseSensitive |-> FALSE]
        /\ queries[2].dimensionFilter =
               [fieldName |-> "pagePath", filter |-> "stringFilter",
                matchType |-> "BEGINS_WITH", value |-> StrippedInput,
                caseSensitive |-> FALSE]

\* The fallback for the input " /A/ " is in flight with the prefix "/A".
C25_Witness ==
    /\ pc = "runReport2"
    /\ pathInput = <<" ", "/", "A", "/", " ">>
    /\ Len(queries) = 2
    /\ queries[2].dimensionFilter.value = <<"/", "A">>
    /\ queries[1].dimensionFilter.values = << <<"/", "A", "/">>, <<"/", "A">> >>


----------------------------------------------------------------------------
(* The refresh loop of the realtime view (specification SpecTuiLive). *)

\* A refresh of the view on display is in flight.
RefreshInFlight == \E i \in 1..Len(pending) : pending[i].viewId = activeViewId

\* The realtime view is on display, every refresh it started has completed, and the
\* ticks the model follows suffice to bring the countdown to its end.
RefreshCompleted ==
    /\ screen = "realtime"
    /\ ~RefreshInFlight
    /\ ticksSince + countdown < MaxTicks

\* C26: while the realtime view stays on display and every started query completes,
\* a new refresh is started after each completed refresh, a failed one included.
C26_RefreshLoopNeverStalls ==
    RefreshCompleted ~> (RefreshInFlight \/ screen # "realtime")

\* A refresh started by the timer has failed: the error is on display, the countdown
\* is at 0 and no refresh is in flight.
C26_Witness ==
    /\ RefreshCompleted
    /\ content.summary.text = "error"
    /\ countdown = 0
    /\ ticksSince > CountdownStart
    /\ activeViewId \in timers


----------------------------------------------------------------------------
(* Further properties of the command line (specification SpecCli). *)

\* The days a symbolic date lies before today.
AgoDays(d) == IF d.unit = "years" THEN 365 * d.ago ELSE d.ago

\* a <= b for two dates written YYYY-MM-DD.
IsoLeq(a, b) ==
    \/ a = b
    \/ \E k \in 1..Len(a) :
          /\ k <= Len(b)
          /\ SubSeq(a, 1, k - 1) = SubSeq(b, 1, k - 1)
          /\ a[k] \in Digits
          /\ b[k] \in Digits
          /\ DigitVal(a[k]) < DigitVal(b[k])

\* startDate <= endDate for the range of a query of this run.
RangeOrdered(r) ==
    IF CustomRequested THEN IsoLeq(r.startDate, r.endDate)
    ELSE AgoDays(r.startDate) >= AgoDays(r.endDate)

\* C27 as stated: every date range handed to a report query has
\* startDate <= endDate, for every symbolic range and every accepted custom range.
C27_StartNotAfterEnd ==
    \A i \in 1..Len(queries) :
        "dateRanges" \in DOMAIN queries[i] => RangeOrdered(queries[i].dateRanges[1])


----------------------------------------------------------------------------
(* Frame of a failed call (specification Spec). *)

\* The call has failed: invalid input, missing property or upstream failure.
CallFailed == pc \in {"rejected", "threw"}

\* C28: errors are one-shot: the step on which a service call fails and the step
\* that hands the failure to the caller leave the selected propertyId unchanged,
\* and once the failure is handed over nothing of the call is left: the service
\* is as it was before the call, so a subsequent call behaves as if the failed
\* call had never been made.
C28_FailedCallLeavesNoTrace ==
    [][/\ CallFailed' => propertyId' = propertyId
       /\ CallFailed =>
             /\ propertyId' = propertyId
             /\ pc' = "idle"
             /\ NoCall']_vars

\* The fallback query of a path report was rejected; the property is still
\* selected.
C28_Witness ==
    /\ pc = "rejected"
    /\ error = ErrUpstream
    /\ Len(queries) = 2
    /\ propertyId = P1


----------------------------------------------------------------------------
(* init (specification SpecCli). *)

\* The command line is init with a credentials file.
InitWithFile ==
    /\ CommandOf(parseArgs(argv)) = WInit
    /\ Falsy(Opt(CliOptions, KHelp))
    /\ ~Falsy(Positional(parseArgs(argv), 1))

\* C29: an init whose credentials file is unreadable or not valid JSON leaves the
\* config file as it was and exits with code 1; the config file is written only by
\* an init that has read and parsed the credentials.
C29_FailedInitKeepsConfig ==
    [][/\ (InitWithFile /\ credsFile # "ok" /\ cliPc = "main") =>
              /\ configFile' = configFile
              /\ cliPc' = "exited"
              /\ exitCode' = 1
       /\ configFile' # configFile =>
              /\ InitWithFile
              /\ credsFile = "ok"
              /\ configFile' = ConfigFile("ok", Null, "new")]_vars

\* An init with a credentials file that is not valid JSON has exited with code 1;
\* the config file with its default property is still there.
C29_Witness ==
    /\ cliPc = "exited"
    /\ exitCode = 1
    /\ InitWithFile
    /\ credsFile = "malformed"
    /\ configFile = ConfigFile("ok", P1, "old")
    /\ errorLog # <<>>
    /\ errorLog[Len(errorLog)] = LogEntry(<<"initGA">>, ErrCredentials)

============================================================================
